---------------------------- MODULE Spec2Model ----------------------------
(***************************************************************************)
(* ibis: configuration resolution (dev/ibis/src/config.rs) and the TCP     *)
(* accept / read-respond loop (dev/ibis/src/core.rs).                      *)
(*                                                                         *)
(* A TOML value is a record [t, i, s(, tb)]: t is the tag ("absent" for a  *)
(* key that is not in its table, "int", "str", "table"), i the integer, s  *)
(* the string and tb the table's entries.  The toml crate is the 0.5       *)
(* line the `extern crate toml` source was written for: Index panics on a  *)
(* missing key, Display of a table writes a TOML document, Display of any  *)
(* other value writes the bare value.                                      *)
(***************************************************************************)
EXTENDS Integers, Sequences, FiniteSets, TLC

VARIABLES
    file,           \* the configuration file handed to init_with_file
    pc,             \* position inside init_with_file
    config,         \* the parsed toml::Value (local `config`)
    server_config,  \* local `server_config`
    app_config,     \* local `app_config`
    logger_config,  \* local `logger_config`
    diag,           \* the println! diagnostics, in order
    deser,          \* the typed tables toml::from_str was called on
    panic_at,       \* the expression that panicked ("none" when none did)
    seen,           \* the values the accessors returned
    run_pc,         \* position inside IbisCore::run
    log_level,      \* the level handed to the subscriber
    conns,          \* one record per connection slot
    log             \* the error!-level messages of run and the handlers

cfgvars == <<file, pc, config, server_config, app_config, logger_config,
             diag, deser, panic_at, seen>>
srvvars == <<run_pc, log_level, conns, log>>
vars    == <<file, pc, config, server_config, app_config, logger_config,
             diag, deser, panic_at, seen, run_pc, log_level, conns, log>>

---------------------------------------------------------------------------
(* toml values *)

Abs    == [t |-> "absent", i |-> 0, s |-> ""]
I(n)   == [t |-> "int", i |-> n, s |-> ""]
S(x)   == [t |-> "str", i |-> 0, s |-> x]

TokioFields   == {"worker_threads", "blocking_threads", "keep_alive",
                  "stack_size", "address", "port"}
AppFields     == {"app_name", "version"}
TracingFields == {"log_level", "logfile_path", "logfile_name"}
KindFields    == {"kind"}

\* a value that is a table with the entries tb
T(tb)      == [t |-> "table", i |-> 0, s |-> "", tb |-> tb]
\* a top-level key that is set to an integer instead of a table
NotTable(keys) == [t |-> "int", i |-> 1, s |-> "", tb |-> [k \in keys |-> Abs]]
\* a top-level key that is not in the file
NoKey(keys)    == [t |-> "absent", i |-> 0, s |-> "", tb |-> [k \in keys |-> Abs]]

\* toml::Value::get(key): Some exactly when the value is a table holding key
Has(v, key) == v.t = "table" /\ key \in DOMAIN v.tb /\ v.tb[key].t # "absent"

\* toml::Value::as_str
IsStr(v) == v.t = "str"

---------------------------------------------------------------------------
(* The compiled-in defaults *)

IbisServerTokioConfigDefault_port ==
    [worker_threads |-> 5, blocking_threads |-> 50, keep_alive |-> 60,
     stack_size |-> 3145728, address |-> "127.0.0.1", port |-> "8080"]

IbisServerTokioConfigDefault ==
    [worker_threads |-> 5, blocking_threads |-> 50, keep_alive |-> 60,
     stack_size |-> 3145728, address |-> "127.0.0.1", port |-> "8000"]

IbisAppConfigDefault == [app_name |-> "xxx", version |-> "1.0.0"]

IbisLoggerTracingConfigDefault ==
    [log_level |-> "debug", logfile_path |-> "./output/logs",
     logfile_name |-> "app_log"]

Tokio(c)   == [variant |-> "Tokio", cfg |-> c]
Tracing(c) == [variant |-> "Tracing", cfg |-> c]

IbisServerTypeDefault == Tokio(IbisServerTokioConfigDefault)
IbisLoggerTypeDefault == Tracing(IbisLoggerTracingConfigDefault)

\* the locals before they are assigned
UnsetServer == [variant |-> "unset",
                cfg |-> [worker_threads |-> 0, blocking_threads |-> 0,
                         keep_alive |-> 0, stack_size |-> 0,
                         address |-> "", port |-> ""]]
UnsetApp    == [app_name |-> "", version |-> ""]
UnsetLogger == [variant |-> "unset",
                cfg |-> [log_level |-> "", logfile_path |-> "",
                         logfile_name |-> ""]]

---------------------------------------------------------------------------
(* Value -> text -> typed struct: `toml::from_str(&value.to_string())` *)

\* the decimal digits of a natural number, most significant first
RECURSIVE Digits(_)
Digits(n) == IF n < 10 THEN <<n>> ELSE Append(Digits(n \div 10), n % 10)

\* the natural number a digit string denotes
RECURSIVE Number(_)
Number(ds) ==
    IF Len(ds) = 0 THEN 0
    ELSE 10 * Number(SubSeq(ds, 1, Len(ds) - 1)) + ds[Len(ds)]

\* the text of one scalar: an optional sign and digits, or a quoted string
Token(v) ==
    IF v.t = "int"
    THEN [kind |-> "integer", neg |-> v.i < 0,
          digits |-> Digits(IF v.i < 0 THEN 0 - v.i ELSE v.i), text |-> ""]
    ELSE [kind |-> "string", neg |-> FALSE, digits |-> <<0>>, text |-> v.s]

\* the scalar a token parses to
ValueOf(tok) ==
    IF tok.kind = "integer"
    THEN I(IF tok.neg THEN 0 - Number(tok.digits) ELSE Number(tok.digits))
    ELSE S(tok.text)

\* Display for toml::Value: a table is written as a document of `key = token`
\* lines, any other value as the bare token, which is no document
to_string(v) ==
    IF v.t = "table"
    THEN [bare |-> FALSE,
          lines |-> [k \in {x \in DOMAIN v.tb : v.tb[x].t # "absent"}
                       |-> Token(v.tb[k])]]
    ELSE [bare |-> TRUE, lines |-> [k \in {} |-> Token(v)]]

TokioTypes ==
    [worker_threads |-> "usize", blocking_threads |-> "usize",
     keep_alive |-> "u64", stack_size |-> "usize",
     address |-> "String", port |-> "String"]
AppTypes     == [app_name |-> "String", version |-> "String"]
TracingTypes == [log_level |-> "String", logfile_path |-> "String",
                 logfile_name |-> "String"]

\* serde: does the scalar deserialize into a field of type ty
Fits(v, ty) ==
    IF ty = "String" THEN v.t = "str" ELSE v.t = "int" /\ v.i >= 0

\* the Rust value of a scalar that fits
Native(v, ty) == IF ty = "String" THEN v.s ELSE v.i

\* does field f of the document deserialize
FieldOk(doc, types, f) ==
    /\ f \in DOMAIN doc.lines
    /\ Fits(ValueOf(doc.lines[f]), types[f])

\* toml::from_str::<Struct>(text) is Ok
from_str_ok(doc, types) ==
    /\ ~doc.bare
    /\ \A f \in DOMAIN types : FieldOk(doc, types, f)

\* the struct toml::from_str::<Struct>(text) returns when Ok
from_str_val(doc, types) ==
    [f \in DOMAIN types |-> Native(ValueOf(doc.lines[f]), types[f])]

\* a slip: keep the fields that deserialize, default the others
Deserialize_merge(v, types, default) ==
    LET doc == to_string(v)
    IN  [f \in DOMAIN types |->
            IF ~doc.bare /\ FieldOk(doc, types, f)
            THEN Native(ValueOf(doc.lines[f]), types[f])
            ELSE default[f]]

\* match toml::from_str(&v.to_string()) { Ok(c) => c, Err(_) => default }
Deserialize(v, types, default) ==
    LET doc == to_string(v)
    IN  IF from_str_ok(doc, types) THEN from_str_val(doc, types) ELSE default

DeserializeFails(v, types) == ~from_str_ok(to_string(v), types)

---------------------------------------------------------------------------
(* The three sections of init_with_file.  An outcome is the value of the   *)
(* section, the diagnostics printed, the typed tables deserialized and the *)
(* expression that panicked, if one did.                                   *)

Out(p, v, d, x) == [panic |-> p, val |-> v, diag |-> d, deser |-> x]

\* toml's Index: config["tokio"] panics when the key is missing
TokioBranch(cfg) ==
    IF ~Has(cfg, "tokio")
    THEN Out("tokio", UnsetServer, <<>>, {})
    ELSE Out("none",
             Tokio(Deserialize(cfg.tb.tokio, TokioTypes,
                               IbisServerTokioConfigDefault)),
             IF DeserializeFails(cfg.tb.tokio, TokioTypes)
             THEN <<"WARN can't deserialize tokio config",
                    "INFO use default tokio config">>
             ELSE <<>>,
             {"tokio"})

\* a slip: an unknown kind is read as the known one
InvalidServerKind_asTokio(cfg) == TokioBranch(cfg)

InvalidServerKind(cfg) ==
    Out("none", IbisServerTypeDefault,
        <<"WARN invalid server kind", "INFO use default server config">>, {})

\* s["kind"].as_str(), "tokio" when kind is not a string
server_type(s) == IF IsStr(s.tb.kind) THEN s.tb.kind.s ELSE "tokio"

KindDiag(s, msg) == IF IsStr(s.tb.kind) THEN <<>> ELSE <<msg>>

WithDiag(d, o) == [o EXCEPT !.diag = d \o o.diag]

ServerOutcome(cfg) ==
    IF ~Has(cfg, "server")
    THEN Out("none", IbisServerTypeDefault,
             <<"WARN not found [server] section",
               "INFO use default server config">>, {})
    ELSE LET s == cfg.tb.server
         IN  IF ~Has(s, "kind")
             THEN Out("server.kind", UnsetServer, <<>>, {})
             ELSE WithDiag(KindDiag(s, "INFO use default server config"),
                           IF server_type(s) = "tokio"
                           THEN TokioBranch(cfg)
                           ELSE InvalidServerKind(cfg))

AppOutcome(cfg) ==
    IF ~Has(cfg, "app")
    THEN Out("none", IbisAppConfigDefault,
             <<"WARN not found [app] section",
               "INFO use default application config">>, {})
    ELSE Out("none",
             Deserialize(cfg.tb.app, AppTypes, IbisAppConfigDefault),
             IF DeserializeFails(cfg.tb.app, AppTypes)
             THEN <<"WARN can't deserialize application config",
                    "INFO use default application config">>
             ELSE <<>>,
             {"app"})

TracingBranch(cfg) ==
    IF ~Has(cfg, "tracing")
    THEN Out("tracing", UnsetLogger, <<>>, {})
    ELSE Out("none",
             Tracing(Deserialize(cfg.tb.tracing, TracingTypes,
                                 IbisLoggerTracingConfigDefault)),
             IF DeserializeFails(cfg.tb.tracing, TracingTypes)
             THEN <<"WARN can't deserialize tracing config",
                    "INFO use default tracing config">>
             ELSE <<>>,
             {"tracing"})

InvalidLoggerKind(cfg) ==
    Out("none", IbisLoggerTypeDefault,
        <<"WARN invalid logger kind", "INFO use default logger config">>, {})

logger_type(s) == IF IsStr(s.tb.kind) THEN s.tb.kind.s ELSE "tracing"

LoggerOutcome(cfg) ==
    IF ~Has(cfg, "logger")
    THEN Out("none", IbisLoggerTypeDefault,
             <<"WARN not found [logger] section",
               "INFO use default logger config">>, {})
    ELSE LET s == cfg.tb.logger
         IN  IF ~Has(s, "kind")
             THEN Out("logger.kind", UnsetLogger, <<>>, {})
             ELSE WithDiag(KindDiag(s, "INFO use default logger config"),
                           IF logger_type(s) = "tracing"
                           THEN TracingBranch(cfg)
                           ELSE InvalidLoggerKind(cfg))

---------------------------------------------------------------------------
(* The configuration files the model reads *)

WellTokio ==
    [worker_threads |-> I(10), blocking_threads |-> I(100),
     keep_alive |-> I(30), stack_size |-> I(2097152),
     address |-> S("0.0.0.0"), port |-> S("8080")]
WellTokio2 ==
    [worker_threads |-> I(1), blocking_threads |-> I(7),
     keep_alive |-> I(0), stack_size |-> I(1048576),
     address |-> S("localhost"), port |-> S("80")]
\* only worker_threads is set
OnlyWorker == [f \in TokioFields |-> IF f = "worker_threads" THEN I(10) ELSE Abs]

WellApp     == [app_name |-> S("ibis"), version |-> S("0.2.0")]
WellTracing == [log_level |-> S("info"), logfile_path |-> S("/var/log"),
                logfile_name |-> S("ibis_log")]

\* what a field of type ty may hold instead of a value of its type
BadScalars(ty) ==
    IF ty = "String" THEN {Abs, I(8080)}
    ELSE IF ty = "u64" THEN {Abs, S("60"), I(0 - 1)}
    ELSE {Abs, S("10")}

\* the table with one field made bad
Broken(tb, types) ==
    UNION {{[tb EXCEPT ![f] = b] : b \in BadScalars(types[f])} : f \in DOMAIN types}

TokioTables   == {WellTokio, WellTokio2, OnlyWorker} \cup Broken(WellTokio, TokioTypes)
AppTables     == {WellApp} \cup Broken(WellApp, AppTypes)
TracingTables == {WellTracing} \cup Broken(WellTracing, TracingTypes)

KindTables(known) ==
    {[kind |-> Abs], [kind |-> I(3)], [kind |-> S(known)], [kind |-> S("hyper")]}

\* the values a top-level key may have: missing, not a table, or a table
Values(tables, keys) ==
    {NoKey(keys), NotTable(keys)} \cup {T(tb) : tb \in tables}

Trees ==
    {T([server |-> sv, app |-> ap, logger |-> lg, tokio |-> tk, tracing |-> tr]) :
        sv \in Values(KindTables("tokio"), KindFields),
        ap \in Values(AppTables, AppFields),
        lg \in Values(KindTables("tracing"), KindFields),
        tk \in Values(TokioTables, TokioFields),
        tr \in Values(TracingTables, TracingFields)}

\* toml::from_str("") is the table with no key
EmptyTree ==
    T([server |-> NoKey(KindFields), app |-> NoKey(AppFields),
       logger |-> NoKey(KindFields), tokio |-> NoKey(TokioFields),
       tracing |-> NoKey(TracingFields)])

\* a file is missing, not UTF-8, not TOML ("truncated"), or TOML text
TomlFile(tree) == [kind |-> "toml", tree |-> tree]
NoTomlFiles    == {[kind |-> k, tree |-> EmptyTree] :
                      k \in {"missing", "nonutf8", "truncated"}}
Files          == NoTomlFiles \cup {TomlFile(tr) : tr \in Trees}

\* read_file: File::open and read_to_string both succeed
read_file_ok(f) == f.kind \notin {"missing", "nonutf8"}

\* toml::from_str::<toml::Value>(&toml_content) is Ok
parse_ok(f) == f.kind = "toml"

---------------------------------------------------------------------------
(* The accessors of IbisConfig *)

get_app_name(self)                == self.app_config.app_name
get_app_version(self)             == self.app_config.version
get_server_address(self)          == self.server_config.cfg.address
\* a slip: the port accessor reads the address field
get_server_port_address(self)     == self.server_config.cfg.address
get_server_port(self)             == self.server_config.cfg.port
get_server_worker_threads(self)   == self.server_config.cfg.worker_threads
get_server_blocking_threads(self) == self.server_config.cfg.blocking_threads
get_server_keep_alive(self)       == self.server_config.cfg.keep_alive
get_server_stack_size(self)       == self.server_config.cfg.stack_size
get_logger_log_level(self)        == self.logger_config.cfg.log_level
get_logger_logfile_path(self)     == self.logger_config.cfg.logfile_path
get_logger_logfile_name(self)     == self.logger_config.cfg.logfile_name

\* the IbisConfig init_with_file returned
Self == [server_config |-> server_config, app_config |-> app_config,
         logger_config |-> logger_config]

UnsetSeen ==
    [address |-> "", port |-> "", worker_threads |-> 0, blocking_threads |-> 0,
     keep_alive |-> 0, stack_size |-> 0, app_name |-> "", version |-> "",
     log_level |-> "", logfile_path |-> "", logfile_name |-> ""]

---------------------------------------------------------------------------
(* init_with_file, one action per statement *)

\* IbisConfig::default()
ReturnDefault ==
    /\ server_config' = IbisServerTypeDefault
    /\ app_config' = IbisAppConfigDefault
    /\ logger_config' = IbisLoggerTypeDefault
    /\ pc' = "done"

\* let toml_content = match Self::read_file(file) ...
ReadFile ==
    /\ pc = "read"
    /\ IF read_file_ok(file)
       THEN /\ pc' = "parse"
            /\ UNCHANGED <<server_config, app_config, logger_config, diag>>
       ELSE /\ ReturnDefault
            /\ diag' = diag \o <<"WARN can't read a config file",
                                 "INFO use default config">>
    /\ UNCHANGED <<file, config, deser, panic_at, seen, srvvars>>

\* let config: toml::Value = match toml::from_str(&toml_content) ...
ParseToml ==
    /\ pc = "parse"
    /\ IF parse_ok(file)
       THEN /\ config' = file.tree
            /\ pc' = "server"
            /\ UNCHANGED <<server_config, app_config, logger_config, diag>>
       ELSE /\ ReturnDefault
            /\ diag' = diag \o <<"WARN can't deserialize config",
                                 "INFO use default config">>
            /\ UNCHANGED config
    /\ UNCHANGED <<file, deser, panic_at, seen, srvvars>>

\* the bookkeeping of one section: its diagnostics, or the panic
Step(o, next) ==
    /\ diag' = diag \o o.diag
    /\ deser' = deser \cup o.deser
    /\ panic_at' = o.panic
    /\ pc' = IF o.panic = "none" THEN next ELSE "panicked"

\* let server_config = match config.get("server") ...
ResolveServer ==
    /\ pc = "server"
    /\ LET o == ServerOutcome(config)
       IN  /\ Step(o, "app")
           /\ server_config' = o.val
    /\ UNCHANGED <<file, config, app_config, logger_config, seen, srvvars>>

\* let app_config = match config.get("app") ...
ResolveApp ==
    /\ pc = "app"
    /\ LET o == AppOutcome(config)
       IN  /\ Step(o, "logger")
           /\ app_config' = o.val
    /\ UNCHANGED <<file, config, server_config, logger_config, seen, srvvars>>

\* let logger_config = match config.get("logger") ...
ResolveLogger ==
    /\ pc = "logger"
    /\ LET o == LoggerOutcome(config)
       IN  /\ Step(o, "done")
           /\ logger_config' = o.val
    /\ UNCHANGED <<file, config, server_config, app_config, seen, srvvars>>

\* the caller reads every accessor of the returned IbisConfig
ReadAccessors ==
    /\ pc = "done"
    /\ run_pc = "start"
    /\ seen' = [address          |-> get_server_address(Self),
                port             |-> get_server_port(Self),
                worker_threads   |-> get_server_worker_threads(Self),
                blocking_threads |-> get_server_blocking_threads(Self),
                keep_alive       |-> get_server_keep_alive(Self),
                stack_size       |-> get_server_stack_size(Self),
                app_name         |-> get_app_name(Self),
                version          |-> get_app_version(Self),
                log_level        |-> get_logger_log_level(Self),
                logfile_path     |-> get_logger_logfile_path(Self),
                logfile_name     |-> get_logger_logfile_name(Self)]
    /\ pc' = "read_back"
    /\ UNCHANGED <<file, config, server_config, app_config, logger_config,
                   diag, deser, panic_at, srvvars>>

---------------------------------------------------------------------------
(* The connections of IbisCore::run *)

\* connections accepted, and non-empty reads per connection
MaxConns == 2
MaxExchanges == 2

Conn == 1..MaxConns

\* a slot: st is "none" until accept returns the connection, then the
\* handler's state; r and w count the non-empty reads and the complete
\* writes; buf is what the last read left in the buffer, last the outcome of
\* the last read, sent what the peer received, errs the handler's error!
\* calls, cause why the handler ended
NoConn == [st |-> "none", r |-> 0, w |-> 0, buf |-> "", last |-> "",
           sent |-> <<>>, errs |-> 0, cause |-> ""]

InitCommon ==
    /\ pc = "read"
    /\ config = EmptyTree
    /\ server_config = UnsetServer
    /\ app_config = UnsetApp
    /\ logger_config = UnsetLogger
    /\ diag = <<>>
    /\ deser = {}
    /\ panic_at = "none"
    /\ seen = UnsetSeen
    /\ run_pc = "start"
    /\ log_level = ""
    /\ conns = [c \in Conn |-> NoConn]
    /\ log = {}

Init == file \in Files /\ InitCommon

Next ==
    \/ ReadFile
    \/ ParseToml
    \/ ResolveServer
    \/ ResolveApp
    \/ ResolveLogger
    \/ ReadAccessors

Spec == Init /\ [][Next]_vars

---------------------------------------------------------------------------
(* IbisCore::run *)

\* what a peer sends in one read: 5 bytes or 3 bytes
Requests == {"hello", "abc"}

\* let response = "test";
Response == "test"

\* tracing::Level::from_str: the five names in any case, or "1".."5"
LevelFromStr(s) ==
    CASE s \in {"error", "ERROR", "1"} -> "ERROR"
      [] s \in {"warn", "WARN", "2"}   -> "WARN"
      [] s \in {"info", "INFO", "3"}   -> "INFO"
      [] s \in {"debug", "DEBUG", "4"} -> "DEBUG"
      [] s \in {"trace", "TRACE", "5"} -> "TRACE"
      [] OTHER                         -> "Err"

\* a slip: the fallback is the level the info! message names
SetLogLevel_info ==
    /\ run_pc = "start"
    /\ pc = "done"
    /\ LET l == LevelFromStr(get_logger_log_level(Self))
       IN  log_level' = IF l = "Err" THEN "INFO" ELSE l
    /\ run_pc' = "runtime"
    /\ UNCHANGED <<cfgvars, conns, log>>

\* let log_level = match Level::from_str(config.get_logger_log_level()) ...
\* and the subscriber built with it
SetLogLevel ==
    /\ run_pc = "start"
    /\ pc = "done"
    /\ LET l == LevelFromStr(get_logger_log_level(Self))
       IN  log_level' = IF l = "Err" THEN "TRACE" ELSE l
    /\ run_pc' = "runtime"
    /\ UNCHANGED <<cfgvars, conns, log>>

\* init_with_file panicked: run unwinds before anything is started
ConfigPanic ==
    /\ run_pc = "start"
    /\ pc = "panicked"
    /\ run_pc' = "panicked"
    /\ UNCHANGED <<cfgvars, log_level, conns, log>>

\* Builder::worker_threads(n) and max_blocking_threads(n) assert n > 0
BuilderAccepts ==
    /\ get_server_worker_threads(Self) > 0
    /\ get_server_blocking_threads(Self) > 0

\* a thread count of 0: the builder's assertion panics, run unwinds
BuildRuntimePanic ==
    /\ run_pc = "runtime"
    /\ ~BuilderAccepts
    /\ run_pc' = "panicked"
    /\ UNCHANGED <<cfgvars, log_level, conns, log>>

\* Builder::new_multi_thread()...build() is Ok
BuildRuntimeOk ==
    /\ run_pc = "runtime"
    /\ BuilderAccepts
    /\ run_pc' = "bind"
    /\ UNCHANGED <<cfgvars, log_level, conns, log>>

\* ...build() is Err: error!("runtime error"), return
BuildRuntimeErr ==
    /\ run_pc = "runtime"
    /\ BuilderAccepts
    /\ log' = log \cup {<<0, "runtime error">>}
    /\ run_pc' = "returned"
    /\ UNCHANGED <<cfgvars, log_level, conns>>

\* TcpListener::bind("address:port") is Ok
BindOk ==
    /\ run_pc = "bind"
    /\ run_pc' = "accepting"
    /\ UNCHANGED <<cfgvars, log_level, conns, log>>

\* bind is Err: error!("tcp listener error"), the async block returns
BindErr ==
    /\ run_pc = "bind"
    /\ log' = log \cup {<<0, "tcp listener error">>}
    /\ run_pc' = "block_on_returned"
    /\ UNCHANGED <<cfgvars, log_level, conns>>

\* the slots accept has not filled yet
Free == {c \in Conn : conns[c].st = "none"}

\* a slip: the handler is awaited in the accept loop instead of spawned, so
\* accept is reached again only when the handler has returned
AcceptOk_inline(c) ==
    /\ run_pc = "accepting"
    /\ c \in Free
    /\ \A d \in Free : c <= d
    /\ \A d \in Conn : conns[d].st \in {"none", "Closed"}
    /\ conns' = [conns EXCEPT ![c].st = "Reading"]
    /\ UNCHANGED <<cfgvars, run_pc, log_level, log>>

\* listener.accept() is Ok: tokio::spawn of the handler, which owns the
\* socket and a fresh buffer
AcceptOk(c) ==
    /\ run_pc = "accepting"
    /\ c \in Free
    /\ \A d \in Free : c <= d
    /\ conns' = [conns EXCEPT ![c].st = "Reading"]
    /\ UNCHANGED <<cfgvars, run_pc, log_level, log>>

\* listener.accept() is Err: error!("application error"), the async block
\* returns and with it block_on
AcceptErr ==
    /\ run_pc = "accepting"
    /\ log' = log \cup {<<0, "application error">>}
    /\ run_pc' = "block_on_returned"
    /\ UNCHANGED <<cfgvars, log_level, conns>>

\* a slip: the runtime outlives run, the tasks are left alone
DropRuntime_leak ==
    /\ run_pc = "block_on_returned"
    /\ run_pc' = "returned"
    /\ UNCHANGED <<cfgvars, log_level, conns, log>>

\* run returns: `runtime` goes out of scope and is dropped, which shuts the
\* runtime down and drops every task that has not finished at its await
DropRuntime ==
    /\ run_pc = "block_on_returned"
    /\ conns' = [c \in Conn |->
                    IF conns[c].st \in {"Reading", "Responding"}
                    THEN [conns[c] EXCEPT !.st = "Closed", !.cause = "cancelled"]
                    ELSE conns[c]]
    /\ run_pc' = "returned"
    /\ UNCHANGED <<cfgvars, log_level, log>>

\* the runtime polls tasks from its construction until it is dropped
RuntimeAlive == run_pc \in {"accepting", "block_on_returned"}

\* a slip: the n == 0 arm is missing, the read counts as a request
HandlerReadZero_asData(c) ==
    /\ RuntimeAlive
    /\ conns[c].st = "Reading"
    /\ conns[c].r < MaxExchanges
    /\ conns' = [conns EXCEPT ![c].st = "Responding", ![c].last = "eof",
                              ![c].r = @ + 1]
    /\ UNCHANGED <<cfgvars, run_pc, log_level, log>>

\* socket.read(&mut buf) is Ok(0): return
HandlerReadZero(c) ==
    /\ RuntimeAlive
    /\ conns[c].st = "Reading"
    /\ conns' = [conns EXCEPT ![c].st = "Closed", ![c].last = "eof",
                              ![c].cause = "eof"]
    /\ UNCHANGED <<cfgvars, run_pc, log_level, log>>

\* socket.read(&mut buf) is Ok(n), n > 0: go on to the write
HandlerReadData(c, data) ==
    /\ RuntimeAlive
    /\ conns[c].st = "Reading"
    /\ conns[c].r < MaxExchanges
    /\ conns' = [conns EXCEPT ![c].st = "Responding", ![c].last = "data",
                              ![c].buf = data, ![c].r = @ + 1]
    /\ UNCHANGED <<cfgvars, run_pc, log_level, log>>

\* a slip: a read error is taken for a listener error and ends the accept loop
HandlerReadErr_fatal(c) ==
    /\ RuntimeAlive
    /\ conns[c].st = "Reading"
    /\ conns' = [conns EXCEPT ![c].st = "Closed", ![c].last = "err",
                              ![c].errs = @ + 1, ![c].cause = "read_err"]
    /\ log' = log \cup {<<c, "failed to read from socket">>}
    /\ run_pc' = "block_on_returned"
    /\ UNCHANGED <<cfgvars, log_level>>

\* socket.read(&mut buf) is Err: error!("failed to read from socket"), return
HandlerReadErr(c) ==
    /\ RuntimeAlive
    /\ conns[c].st = "Reading"
    /\ conns' = [conns EXCEPT ![c].st = "Closed", ![c].last = "err",
                              ![c].errs = @ + 1, ![c].cause = "read_err"]
    /\ log' = log \cup {<<c, "failed to read from socket">>}
    /\ UNCHANGED <<cfgvars, run_pc, log_level>>

\* a slip: the handler echoes the buffer
HandlerWriteOk_echo(c) ==
    /\ RuntimeAlive
    /\ conns[c].st = "Responding"
    /\ conns' = [conns EXCEPT ![c].st = "Reading", ![c].w = @ + 1,
                              ![c].sent = Append(@, conns[c].buf)]
    /\ UNCHANGED <<cfgvars, run_pc, log_level, log>>

\* socket.write_all(response.as_bytes()) is Ok: back to the read
HandlerWriteOk(c) ==
    /\ RuntimeAlive
    /\ conns[c].st = "Responding"
    /\ conns' = [conns EXCEPT ![c].st = "Reading", ![c].w = @ + 1,
                              ![c].sent = Append(@, Response)]
    /\ UNCHANGED <<cfgvars, run_pc, log_level, log>>

\* socket.write_all(..) is Err: error!("failed to write to socket"), return
HandlerWriteErr(c) ==
    /\ RuntimeAlive
    /\ conns[c].st = "Responding"
    /\ conns' = [conns EXCEPT ![c].st = "Closed", ![c].errs = @ + 1,
                              ![c].cause = "write_err"]
    /\ log' = log \cup {<<c, "failed to write to socket">>}
    /\ UNCHANGED <<cfgvars, run_pc, log_level>>

\* the files run is started on: none, a well-formed one, one whose level is
\* no level name, one whose [server] has no kind, one with worker_threads = 0
WellTree ==
    T([server |-> T([kind |-> S("tokio")]), app |-> T(WellApp),
       logger |-> T([kind |-> S("tracing")]), tokio |-> T(WellTokio),
       tracing |-> T(WellTracing)])
ServerFiles ==
    {[kind |-> "missing", tree |-> EmptyTree],
     TomlFile(WellTree),
     TomlFile(T([WellTree.tb EXCEPT
                    !.tracing = T([WellTracing EXCEPT !.log_level = S("verbose")])])),
     TomlFile(T([WellTree.tb EXCEPT !.server = T([kind |-> Abs])])),
     TomlFile(T([WellTree.tb EXCEPT
                    !.tokio = T([WellTokio EXCEPT !.worker_threads = I(0)])]))}

InitServer == file \in ServerFiles /\ InitCommon

NextServer ==
    \/ ReadFile
    \/ ParseToml
    \/ ResolveServer
    \/ ResolveApp
    \/ ResolveLogger
    \/ SetLogLevel
    \/ ConfigPanic
    \/ BuildRuntimePanic
    \/ BuildRuntimeOk
    \/ BuildRuntimeErr
    \/ BindOk
    \/ BindErr
    \/ \E c \in Conn : AcceptOk(c)
    \/ AcceptErr
    \/ DropRuntime
    \/ \E c \in Conn : HandlerReadZero(c)
    \/ \E c \in Conn, data \in Requests : HandlerReadData(c, data)
    \/ \E c \in Conn : HandlerReadErr(c)
    \/ \E c \in Conn : HandlerWriteOk(c)
    \/ \E c \in Conn : HandlerWriteErr(c)

SpecServer == InitServer /\ [][NextServer]_vars

\* the scheduling of the multi-thread runtime: a handler that has started
\* its write_all is polled until the write has completed or failed
SpecServerFair ==
    /\ SpecServer
    /\ \A c \in Conn : WF_vars(HandlerWriteOk(c) \/ HandlerWriteErr(c))

---------------------------------------------------------------------------
(* Properties of the configuration resolution *)

\* the positions at which a section's match has been evaluated
ServerResolved ==
    \/ pc \in {"app", "logger"}
    \/ pc \in {"done", "read_back"} /\ file.kind = "toml" /\ read_file_ok(file)
    \/ pc = "panicked" /\ panic_at \in {"logger.kind", "tracing"}
AppResolved ==
    \/ pc = "logger"
    \/ pc \in {"done", "read_back"} /\ file.kind = "toml" /\ read_file_ok(file)
    \/ pc = "panicked" /\ panic_at \in {"logger.kind", "tracing"}
LoggerResolved ==
    pc \in {"done", "read_back"} /\ file.kind = "toml" /\ read_file_ok(file)
ServerTried == ServerResolved \/ (pc = "panicked" /\ panic_at \in {"server.kind", "tokio"})
LoggerTried == LoggerResolved \/ (pc = "panicked" /\ panic_at \in {"logger.kind", "tracing"})

\* a table in which a required field is missing or of the wrong type
BadTable(v, types) ==
    /\ v.t = "table"
    /\ \E f \in DOMAIN types :
          \/ v.tb[f].t = "absent"
          \/ types[f] = "String" /\ v.tb[f].t # "str"
          \/ types[f] # "String" /\ (v.tb[f].t # "int" \/ v.tb[f].i < 0)
GoodTable(v, types) == v.t = "table" /\ ~BadTable(v, types)

\* the kind of a section selects the known variant
SelectsKnown(sec, known) ==
    /\ sec.t = "table"
    /\ sec.tb.kind.t # "absent"
    /\ sec.tb.kind.t = "str" => sec.tb.kind.s = known

\* C1: init_with_file is total: whatever the file, it returns an IbisConfig
\* and never panics.
C1_InitWithFileTotal == pc # "panicked"

\* the trees that differ from cfg in the keys of one section only
LoggerVariants(cfg) ==
    {T([cfg.tb EXCEPT !.logger = lg, !.tracing = tr]) :
        lg \in Values(KindTables("tracing"), KindFields),
        tr \in Values(TracingTables, TracingFields)}
ServerVariants(cfg) ==
    {T([cfg.tb EXCEPT !.server = sv, !.tokio = tk]) :
        sv \in Values(KindTables("tokio"), KindFields),
        tk \in Values(TokioTables, TokioFields)}

\* C2: failure isolation by section: with another section missing or
\* malformed, that section resolves to its default, the other sections
\* resolve to what they resolve to anyway, and resolution returns.
C2_SectionIsolation ==
    pc = "server" =>
        /\ \A other \in LoggerVariants(config) :
              /\ LoggerOutcome(other).panic = "none"
              /\ (other.tb.logger.t # "table" \/ other.tb.tracing.t # "table")
                    => LoggerOutcome(other).val = IbisLoggerTypeDefault
              /\ ServerOutcome(other) = ServerOutcome(config)
              /\ AppOutcome(other) = AppOutcome(config)
        /\ \A other \in ServerVariants(config) :
              /\ ServerOutcome(other).panic = "none"
              /\ (other.tb.server.t # "table" \/ other.tb.tokio.t # "table")
                    => ServerOutcome(other).val = IbisServerTypeDefault
              /\ LoggerOutcome(other) = LoggerOutcome(config)
              /\ AppOutcome(other) = AppOutcome(config)

\* C3: typed extraction is all-or-nothing: when the table selected for a
\* section exists and a required field is missing or of the wrong type, the
\* section is its whole compiled-in default, no field of the table is kept.
C3_AllOrNothing ==
    /\ (/\ ServerResolved
        /\ SelectsKnown(config.tb.server, "tokio")
        /\ BadTable(config.tb.tokio, TokioTypes))
          => server_config =
                Tokio([worker_threads |-> 5, blocking_threads |-> 50,
                       keep_alive |-> 60, stack_size |-> 3145728,
                       address |-> "127.0.0.1", port |-> "8000"])
    /\ (AppResolved /\ BadTable(config.tb.app, AppTypes))
          => app_config = [app_name |-> "xxx", version |-> "1.0.0"]
    /\ (/\ LoggerResolved
        /\ SelectsKnown(config.tb.logger, "tracing")
        /\ BadTable(config.tb.tracing, TracingTypes))
          => logger_config =
                Tracing([log_level |-> "debug", logfile_path |-> "./output/logs",
                         logfile_name |-> "app_log"])

\* a server table with only worker_threads = 10 resolved to the defaults
C3_Witness ==
    /\ ServerResolved
    /\ SelectsKnown(config.tb.server, "tokio")
    /\ config.tb.tokio = T(OnlyWorker)
    /\ server_config.cfg.worker_threads = 5

\* C4: with the section present and its kind absent or not a string, a
\* diagnostic is printed, the known kind is assumed and the kind's table is
\* extracted: the section is the known variant.
C4_KindAssumed ==
    /\ (/\ ServerTried
        /\ config.tb.server.t = "table"
        /\ config.tb.server.tb.kind.t # "str"
        /\ config.tb.tokio.t = "table")
          => /\ panic_at = "none"
             /\ server_config.variant = "Tokio"
             /\ \E k \in 1..Len(diag) : diag[k] = "INFO use default server config"
    /\ (/\ LoggerTried
        /\ config.tb.logger.t = "table"
        /\ config.tb.logger.tb.kind.t # "str"
        /\ config.tb.tracing.t = "table")
          => /\ panic_at = "none"
             /\ logger_config.variant = "Tracing"
             /\ \E k \in 1..Len(diag) : diag[k] = "INFO use default logger config"

\* the kind of the section is a string and not the known kind
UnknownKind(sec, known) ==
    sec.t = "table" /\ sec.tb.kind.t = "str" /\ sec.tb.kind.s # known

\* C5: with a kind that is a string other than the known kind, the section
\* is the known variant with the compiled-in default struct, whatever the
\* other tables hold, and the section's resolution does not fail.
C5_UnknownKindDefault ==
    /\ (ServerTried /\ UnknownKind(config.tb.server, "tokio"))
          => /\ ServerResolved
             /\ server_config = IbisServerTypeDefault
    /\ (LoggerTried /\ UnknownKind(config.tb.logger, "tracing"))
          => /\ LoggerResolved
             /\ logger_config = IbisLoggerTypeDefault

\* kind = "hyper" beside a well-formed [tokio] table gave the default
C5_Witness ==
    /\ ServerResolved
    /\ UnknownKind(config.tb.server, "tokio")
    /\ config.tb.tokio = T(WellTokio)
    /\ server_config = IbisServerTypeDefault

\* the file gives init_with_file nothing to extract
NothingToRead ==
    \/ file.kind \in {"missing", "nonutf8", "truncated"}
    \/ file = TomlFile(EmptyTree)

\* C6: an unreadable, unparseable or empty file gives the fully-default
\* config, no section is extracted, and the config is the documented
\* literals.
C6_DefaultLiterals ==
    (pc \in {"done", "read_back"} /\ NothingToRead) =>
        /\ deser = {}
        /\ server_config.variant = "Tokio"
        /\ logger_config.variant = "Tracing"
        /\ server_config.cfg.worker_threads = 5
        /\ server_config.cfg.blocking_threads = 50
        /\ server_config.cfg.keep_alive = 60
        /\ server_config.cfg.stack_size = 3145728
        /\ server_config.cfg.address = "127.0.0.1"
        /\ server_config.cfg.port = "8000"
        /\ app_config.app_name = "xxx"
        /\ app_config.version = "1.0.0"
        /\ logger_config.cfg.log_level = "debug"
        /\ logger_config.cfg.logfile_path = "./output/logs"
        /\ logger_config.cfg.logfile_name = "app_log"

\* the empty file was resolved, and so was a file that is not TOML
C6_Witness ==
    /\ pc = "done"
    /\ NothingToRead
    /\ file.kind \in {"toml", "truncated"}
    /\ server_config.cfg.port = "8000"

\* all three sections present, known kinds, every field there and typed
WellFormed(tree) ==
    /\ tree.tb.server.t = "table"
    /\ tree.tb.server.tb.kind = S("tokio")
    /\ tree.tb.logger.t = "table"
    /\ tree.tb.logger.tb.kind = S("tracing")
    /\ GoodTable(tree.tb.tokio, TokioTypes)
    /\ GoodTable(tree.tb.app, AppTypes)
    /\ GoodTable(tree.tb.tracing, TracingTypes)

\* C7: round trip: for a well-formed file every accessor returns the value
\* the file declares.
C7_RoundTrip ==
    (pc = "read_back" /\ file.kind = "toml" /\ WellFormed(file.tree)) =>
        LET tk == file.tree.tb.tokio.tb
            ap == file.tree.tb.app.tb
            tr == file.tree.tb.tracing.tb
        IN  /\ seen.address = tk.address.s
            /\ seen.port = tk.port.s
            /\ seen.worker_threads = tk.worker_threads.i
            /\ seen.blocking_threads = tk.blocking_threads.i
            /\ seen.keep_alive = tk.keep_alive.i
            /\ seen.stack_size = tk.stack_size.i
            /\ seen.app_name = ap.app_name.s
            /\ seen.version = ap.version.s
            /\ seen.log_level = tr.log_level.s
            /\ seen.logfile_path = tr.logfile_path.s
            /\ seen.logfile_name = tr.logfile_name.s

\* a well-formed file was read back through the accessors
C7_Witness ==
    /\ pc = "read_back"
    /\ file.kind = "toml"
    /\ WellFormed(file.tree)
    /\ seen.stack_size = 1048576
    /\ seen.port = "80"

---------------------------------------------------------------------------
(* Properties of the connection handlers and the accept loop *)

\* C8: a handler is strictly request-response: each non-empty read is
\* followed by one complete write of the fixed payload before the next read,
\* whatever was read, and the completed writes w and non-empty reads r
\* satisfy w <= r <= w + 1.
C8_RequestResponse ==
    \A c \in Conn :
        /\ conns[c].w <= conns[c].r
        /\ conns[c].r <= conns[c].w + 1
        /\ conns[c].st = "Reading" => conns[c].r = conns[c].w
        /\ conns[c].st = "Responding" => conns[c].r = conns[c].w + 1
        /\ Len(conns[c].sent) = conns[c].w
        /\ \A k \in 1..Len(conns[c].sent) : conns[c].sent[k] = "test"

\* a connection sent 3 bytes after its first exchange and was answered again
C8_Witness ==
    \E c \in Conn :
        /\ conns[c].st = "Reading"
        /\ conns[c].buf = "abc"
        /\ conns[c].r = 2
        /\ conns[c].sent = <<"test", "test">>

\* C9: a zero-length read closes the handler: nothing is written after it,
\* no error is logged for it, the handler never acts on the connection
\* again, and a peer that closed before sending received nothing.
C9_ZeroReadCloses ==
    [][\A c \in Conn :
          /\ (conns[c].last # "eof" /\ conns'[c].last = "eof")
                => /\ conns'[c].st = "Closed"
                   /\ conns'[c].sent = conns[c].sent
                   /\ conns'[c].w = conns[c].w
                   /\ conns'[c].errs = conns[c].errs
                   /\ log' = log
                   /\ conns[c].r = 0 => conns'[c].sent = <<>>
          /\ conns[c].last = "eof" => conns'[c] = conns[c]]_vars

\* a peer closed before sending anything, another after one exchange
C9_Witness ==
    /\ \E c \in Conn :
          /\ conns[c].last = "eof"
          /\ conns[c].r = 0
          /\ conns[c].st = "Closed"
    /\ \E c \in Conn :
          /\ conns[c].last = "eof"
          /\ conns[c].w = 1

FailsNow(c) ==
    /\ conns[c].cause = ""
    /\ conns'[c].cause \in {"read_err", "write_err"}

\* C11: a read or write error on one connection closes that handler only,
\* with the error logged: the acceptor goes on accepting, every other
\* handler keeps its state, and run does not stop.
C11_ErrorIsLocal ==
    [][\A c \in Conn :
          FailsNow(c) =>
              /\ conns'[c].st = "Closed"
              /\ conns'[c].errs = conns[c].errs + 1
              /\ \E msg \in {"failed to read from socket",
                             "failed to write to socket"} :
                    <<c, msg>> \in log' /\ <<c, msg>> \notin log
              /\ \A d \in Conn \ {c} : conns'[d] = conns[d]
              /\ run_pc' = run_pc
              /\ run_pc' \in {"accepting", "block_on_returned"}]_vars

\* one handler failed on its read while the other went on to answer, and
\* the acceptor is still accepting
C11_Witness ==
    /\ run_pc = "accepting"
    /\ conns[1].cause = "read_err"
    /\ conns[1].errs = 1
    /\ conns[2].st = "Reading"
    /\ conns[2].w = 2

StartupOrder ==
    {<<"start", "runtime">>, <<"runtime", "bind">>, <<"runtime", "returned">>,
     <<"bind", "accepting">>, <<"bind", "block_on_returned">>,
     <<"accepting", "block_on_returned">>, <<"block_on_returned", "returned">>}

\* C13: startup is ordered and fails closed: once the configuration is
\* resolved it is not resolved again, the runtime is built, then the
\* listener is bound once, then accepting begins; a failed runtime
\* construction attempts no bind, a failed bind attempts no accept and spawns
\* no handler, both log an error and return, and run leaves the accept loop
\* only when accept fails.
C13_StartupFailsClosed ==
    [][pc = "done" =>
          /\ <<pc, server_config, app_config, logger_config>>'
                = <<pc, server_config, app_config, logger_config>>
          /\ run_pc' # run_pc => <<run_pc, run_pc'>> \in StartupOrder
          /\ (run_pc = "runtime" /\ run_pc' \notin {"runtime", "bind"})
                => /\ run_pc' = "returned"
                   /\ <<0, "runtime error">> \in log'
          /\ (run_pc = "bind" /\ run_pc' \notin {"bind", "accepting"})
                => /\ run_pc' = "block_on_returned"
                   /\ <<0, "tcp listener error">> \in log'
          /\ (<<0, "tcp listener error">> \in log \/ <<0, "runtime error">> \in log)
                => \A c \in Conn : conns'[c].st = "none"
          /\ (run_pc = "accepting" /\ run_pc' # "accepting")
                => <<0, "application error">> \in log']_vars

\* the resolved log_level string
ResolvedLevel == logger_config.cfg.log_level

===========================================================================
